---- MODULE Spec2Model ----
(***************************************************************************)
(* A model of ext/spatial_stats/csr_matrix.c: the CSRMatrix wrapper object *)
(* (allocate, initialize from a dictionary of keys, free) and its queries  *)
(* (values, col_index, row_index, mulvec, dot_row, coordinates).           *)
(*                                                                         *)
(* Numbers are integers: every weight and vector element of the model is a *)
(* small integer, which a C double represents and adds exactly.            *)
(***************************************************************************)
EXTENDS Integers, Sequences, FiniteSets, TLC

\* ---------------------------------------------------------------- bounds
MaxN == 3
MaxNnz == 3
MaxBadNnz == 2
MaxWeight == 2
MaxVecVal == 2
MaxInit == 2

\* ------------------------------------------------- values of the C level
\* A null pointer, an indeterminate (never written) value, and an address
\* that malloc never returned.
NULL == 0
Indet == 0 - 1
Wild == 0 - 2

Ids == 1 .. MaxN
Weights == 1 .. MaxWeight
VecVals == 1 .. MaxVecVal

\* ------------------------------------------------------ the Ruby inputs
SeqsUpTo(S, b) == UNION {[1 .. k -> S] : k \in 0 .. b}

\* An element of a row: a Hash {id:, weight:} with a numeric weight, a Hash
\* whose weight is nil, or something that is not a Hash.
HashEntries == [type : {"T_HASH"}, id : Ids, weight : Weights, wtype : {"T_FLOAT"}]
NilWeightEntry == [type |-> "T_HASH", id |-> 1, weight |-> 0, wtype |-> "T_NIL"]
NotAHashEntry == [type |-> "T_FIXNUM", id |-> 0, weight |-> 0, wtype |-> "T_NIL"]
Entries == HashEntries \cup {NilWeightEntry, NotAHashEntry}

NotAnArrayRow == [type |-> "T_NIL", ents |-> <<>>]
ArrayRows(E, b) == {[type |-> "T_ARRAY", ents |-> e] : e \in SeqsUpTo(E, b)}

\* The sequences of n rows whose values are Arrays of at most b elements of E
\* in total, or one of the values of Other.
RECURSIVE RowSeqs(_, _, _, _)
RowSeqs(n, b, E, Other) ==
    IF n = 0 THEN {<<>>}
    ELSE UNION {{<<r>> \o rest : rest \in RowSeqs(n - 1, b - Len(r.ents), E, Other)} :
                   r \in ArrayRows(E, b) \cup Other}

\* The key enumeration orders of the data Hash: the identifiers ascending or
\* descending, so that the index of an identifier is not the identifier.
KeyOrders ==
    UNION {{[i \in 1 .. n |-> i], [i \in 1 .. n |-> MaxN + 1 - i]} : n \in 0 .. MaxN}

MkData(ks, rs) ==
    [type |-> "T_HASH", pairs |-> [i \in 1 .. Len(ks) |-> [key |-> ks[i], row |-> rs[i]]]]
NotAHashData == [type |-> "T_NIL", pairs |-> <<>>]

\* Every row an Array of {id:, weight:} Hashes (an id may be no key of data).
WellTypedInputs ==
    UNION {{MkData(ks, rs) : rs \in RowSeqs(Len(ks), MaxNnz, HashEntries, {})} :
              ks \in KeyOrders}
\* Rows and elements of any type.
AnyTypedInputs ==
    UNION {{MkData(ks, rs) : rs \in RowSeqs(Len(ks), MaxBadNnz, Entries, {NotAnArrayRow})} :
              ks \in KeyOrders}
Inputs == WellTypedInputs \cup AnyTypedInputs \cup {NotAHashData}

NumRowsArgs == 0 .. MaxN

\* ------------------------------------------------------------ the state
VARIABLES
    state,      \* "unallocated", "allocated", "constructed", "raised", "freed"
    data,       \* the Hash the caller passes to initialize
    csr,        \* the csr_matrix struct of the instance
    heap,       \* the buffers malloc returned: address -> [cells, frees]
    bad_frees,  \* calls of free() on an address malloc did not return
    inits,      \* calls of initialize on the instance
    call        \* the last call: its arguments, its result, what it read

vars == <<state, data, csr, heap, bad_frees, inits, call>>

NoErr == [kind |-> "none", msg |-> ""]
TypeError(m) == [kind |-> "TypeError", msg |-> m]
ArgError(m) == [kind |-> "ArgumentError", msg |-> m]

\* ---------------------------------------------------------- Ruby helpers
\* rb_funcall(data, "keys"): the keys in enumeration order.
HashKeys(h) == [i \in 1 .. Len(h.pairs) |-> h.pairs[i].key]

\* rb_hash_aref(data, key): the row stored under key, nil when there is none.
DataARef(h, key) ==
    IF \E p \in 1 .. Len(h.pairs) : h.pairs[p].key = key
    THEN h.pairs[CHOOSE p \in 1 .. Len(h.pairs) : h.pairs[p].key = key].row
    ELSE NotAnArrayRow

\* A lookup table that numbers the keys from 1.
LookupASetFromOne(h, key, i) ==
    [x \in DOMAIN h \cup {key} |-> IF x = key THEN i + 1 ELSE h[x]]

\* rb_hash_aset(key_lookup, key, INT2NUM(i)).
LookupASet(h, key, i) == [x \in DOMAIN h \cup {key} |-> IF x = key THEN i ELSE h[x]]

\* A lookup that converts nil to 0 where NUM2INT raises.
LookupARefNilAsZero(h, key) ==
    IF key \in DOMAIN h THEN [err |-> NoErr, v |-> h[key]] ELSE [err |-> NoErr, v |-> 0]

\* NUM2INT(rb_hash_aref(key_lookup, key)): nil, which NUM2INT rejects, when
\* the key is not in the table.
LookupARef(h, key) ==
    IF key \in DOMAIN h THEN [err |-> NoErr, v |-> h[key]]
    ELSE [err |-> TypeError("no implicit conversion from nil to integer"), v |-> Indet]

\* malloc(size * sizeof element): a buffer of indeterminate cells.
Malloc(size) == [cells |-> [k \in 1 .. size |-> Indet], frees |-> 0]

\* buf[idx] = v, for an index inside the buffer.
Store(cells, idx, v) ==
    IF idx >= 0 /\ idx < Len(cells) THEN [cells EXCEPT ![idx + 1] = v] ELSE cells

\* -------------------------------------------------------- mat_to_sparse
\* A count that is assigned where it should be added to.
AddLenAssign(nnz, row) == Len(row.ents)

\* nnz += (int)RARRAY_LEN(row)
AddLen(nnz, row) == nnz + Len(row.ents)

\* The first loop: fill key_lookup, check every row is an Array, count nnz.
RECURSIVE CountLoop(_, _, _, _, _, _)
CountLoop(d, keys, n, i, key_lookup, nnz) ==
    IF i >= n THEN [err |-> NoErr, key_lookup |-> key_lookup, nnz |-> nnz]
    ELSE LET key == keys[i + 1]
             lookup == LookupASet(key_lookup, key, i)
             row == DataARef(d, key)
         IN  IF row.type # "T_ARRAY"
             THEN [err |-> TypeError("wrong argument type (expected Array)"),
                   key_lookup |-> lookup, nnz |-> nnz]
             ELSE CountLoop(d, keys, n, i + 1, lookup, AddLen(nnz, row))

\* The body of the inner loop for one entry of a row: the checks, then
\* values[nz_idx] = weight, then col_index[nz_idx] = the index of the id.
FillEntry(entry, key_lookup, values, col_index, nz_idx) ==
    IF entry.type # "T_HASH"
    THEN [err |-> TypeError("wrong argument type (expected Hash)"),
          values |-> values, col_index |-> col_index, nz_idx |-> nz_idx]
    ELSE IF entry.wtype # "T_FLOAT"
    THEN [err |-> TypeError("can't convert nil into Float"),
          values |-> values, col_index |-> col_index, nz_idx |-> nz_idx]
    ELSE LET vals == Store(values, nz_idx, entry.weight)
             col == LookupARef(key_lookup, entry.id)
         IN  IF col.err.kind # "none"
             THEN [err |-> col.err,
                   values |-> vals, col_index |-> col_index, nz_idx |-> nz_idx]
             ELSE [err |-> NoErr, values |-> vals,
                   col_index |-> Store(col_index, nz_idx, col.v), nz_idx |-> nz_idx + 1]

\* for (j = 0; j < m; j++)
RECURSIVE FillRow(_, _, _, _, _, _, _)
FillRow(row, j, m, key_lookup, values, col_index, nz_idx) ==
    IF j >= m
    THEN [err |-> NoErr, values |-> values, col_index |-> col_index, nz_idx |-> nz_idx]
    ELSE LET e == FillEntry(row.ents[j + 1], key_lookup, values, col_index, nz_idx)
         IN  IF e.err.kind # "none" THEN e
             ELSE FillRow(row, j + 1, m, key_lookup, e.values, e.col_index, e.nz_idx)

\* The second loop: row_index[i] = nz_idx, then the entries of row i.
RECURSIVE FillLoop(_, _, _, _, _, _, _, _, _)
FillLoop(d, keys, n, i, key_lookup, values, col_index, row_index, nz_idx) ==
    IF i >= n
    THEN [err |-> NoErr, values |-> values, col_index |-> col_index,
          row_index |-> row_index, nz_idx |-> nz_idx]
    ELSE LET ri == Store(row_index, i, nz_idx)
             row == DataARef(d, keys[i + 1])
             r == FillRow(row, 0, Len(row.ents), key_lookup, values, col_index, nz_idx)
         IN  IF r.err.kind # "none"
             THEN [err |-> r.err, values |-> r.values, col_index |-> r.col_index,
                   row_index |-> ri, nz_idx |-> r.nz_idx]
             ELSE FillLoop(d, keys, n, i + 1, key_lookup, r.values, r.col_index, ri, r.nz_idx)

\* row_index[n] = nnz
LastRowIndex(row_index, n, nnz) == Store(row_index, n, nnz)

\* mat_to_sparse(csr, data, keys, num_rows) on the struct c and the heap h:
\* the error raised (or none), the struct and the heap afterwards.  The three
\* buffers are locals until the last lines store them in the struct.
mat_to_sparse(c, h, d, keys, n) ==
    LET p1 == CountLoop(d, keys, n, 0, <<>>, 0)
    IN  IF p1.err.kind # "none" THEN [err |-> p1.err, csr |-> c, heap |-> h]
        ELSE
        LET values == Malloc(p1.nnz)
            col_index == Malloc(p1.nnz)
            row_index == Malloc(n + 1)
            a == Len(h)
            p2 == FillLoop(d, keys, n, 0, p1.key_lookup,
                           values.cells, col_index.cells, row_index.cells, 0)
        IN  IF p2.err.kind # "none"
            THEN [err |-> p2.err, csr |-> c,
                  heap |-> h \o <<[values EXCEPT !.cells = p2.values],
                                  [col_index EXCEPT !.cells = p2.col_index],
                                  [row_index EXCEPT !.cells = p2.row_index]>>]
            ELSE [err |-> NoErr,
                  csr |-> [init |-> 1, n |-> n, nnz |-> p1.nnz,
                           values |-> a + 1, col_index |-> a + 2, row_index |-> a + 3],
                  heap |-> h \o <<[values EXCEPT !.cells = p2.values],
                                  [col_index EXCEPT !.cells = p2.col_index],
                                  [row_index EXCEPT !.cells =
                                       LastRowIndex(p2.row_index, n, p1.nnz)]>>]

\* csr_matrix_initialize(self, data, num_rows): csr->init = 0, the type and
\* dimension checks, then mat_to_sparse.
csr_matrix_initialize(c, h, d, num_rows) ==
    LET c0 == [c EXCEPT !.init = 0]
    IN  IF d.type # "T_HASH"
        THEN [err |-> TypeError("wrong argument type (expected Hash)"), csr |-> c0, heap |-> h]
        ELSE IF num_rows # Len(HashKeys(d))
        THEN [err |-> ArgError("n_rows != keys.size, check your dimensions"),
              csr |-> c0, heap |-> h]
        ELSE mat_to_sparse(c0, h, d, HashKeys(d), num_rows)

\* ------------------------------------------------------------- lifecycle
NoCall == [op |-> "none", num_rows |-> 0, vec |-> <<>>, row |-> 0,
           err |-> NoErr, returned |-> FALSE, result |-> <<>>, reads |-> <<>>]

\* ALLOC(csr_matrix): no field of the struct is written.
UninitStruct == [init |-> Indet, n |-> Indet, nnz |-> Indet,
                 values |-> Indet, col_index |-> Indet, row_index |-> Indet]

Init ==
    /\ state = "unallocated"
    /\ data \in Inputs
    /\ csr = UninitStruct
    /\ heap = <<>>
    /\ bad_frees = 0
    /\ inits = 0
    /\ call = NoCall

\* csr_matrix_alloc
Alloc ==
    /\ state = "unallocated"
    /\ state' = "allocated"
    /\ csr' = UninitStruct
    /\ call' = [NoCall EXCEPT !.op = "alloc", !.returned = TRUE]
    /\ UNCHANGED <<data, heap, bad_frees, inits>>

InitializeCall(num_rows) ==
    LET r == csr_matrix_initialize(csr, heap, data, num_rows)
    IN  /\ csr' = r.csr
        /\ heap' = r.heap
        /\ state' = IF r.err.kind = "none" THEN "constructed" ELSE "raised"
        /\ inits' = inits + 1
        /\ call' = [NoCall EXCEPT !.op = "initialize", !.num_rows = num_rows,
                                  !.err = r.err, !.returned = (r.err.kind = "none")]
        /\ UNCHANGED <<data, bad_frees>>

\* CSRMatrix.new: initialize runs once, on the freshly allocated instance.
Initialize ==
    /\ state = "allocated"
    /\ \E num_rows \in NumRowsArgs : InitializeCall(num_rows)

\* initialize called again on an instance it already ran on.
Reinitialize ==
    /\ state \in {"constructed", "raised"}
    /\ inits < MaxInit
    /\ \E num_rows \in NumRowsArgs : InitializeCall(num_rows)

\* What a read of a struct field yields: the value written, or any value when
\* none was written.
ReadInit(c) == IF c.init = Indet THEN {0, 1} ELSE {c.init}
ReadPtr(p, h) == IF p = Indet THEN {NULL, Wild} \cup DOMAIN h ELSE {p}

\* free(p): NULL is a no-op, a buffer of the heap is released (once more),
\* anything else is an invalid free.
FreeBuf(h, p) == IF p \in DOMAIN h THEN [h EXCEPT ![p].frees = @ + 1] ELSE h
IsBadFree(h, p) == IF p # NULL /\ p \notin DOMAIN h THEN 1 ELSE 0

\* csr_matrix_free: run by the garbage collector on any allocated instance.
Free ==
    /\ state \in {"allocated", "constructed", "raised"}
    /\ \E i \in ReadInit(csr) :
          IF i = 1
          THEN \E v \in ReadPtr(csr.values, heap), c \in ReadPtr(csr.col_index, heap),
                  r \in ReadPtr(csr.row_index, heap) :
                  /\ heap' = FreeBuf(FreeBuf(FreeBuf(heap, v), c), r)
                  /\ bad_frees' = bad_frees + IsBadFree(heap, v) + IsBadFree(heap, c)
                                            + IsBadFree(heap, r)
          ELSE UNCHANGED <<heap, bad_frees>>
    /\ state' = "freed"
    /\ call' = [NoCall EXCEPT !.op = "free", !.returned = TRUE,
                              !.reads = <<[arr |-> "init", idx |-> csr.init]>>]
    /\ UNCHANGED <<data, csr, inits>>

\* --------------------------------------------------------------- queries
\* The value an out-of-bounds read may yield.
Garbage == {Indet, 0, 1}

\* buf[idx] for the buffer at address p: the cell, or garbage g when idx is
\* outside the buffer.
ReadCell(h, p, idx, g) ==
    IF p \in DOMAIN h /\ idx >= 0 /\ idx < Len(h[p].cells) THEN h[p].cells[idx + 1] ELSE g

Rd(arr, idx) == [arr |-> arr, idx |-> idx]

\* NUM2DBL(rb_ary_entry(vec, idx)): a negative idx counts from the end, and
\* an idx outside the Array yields nil, which NUM2DBL rejects.
VecEntry(vec, idx) ==
    LET off == IF idx < 0 THEN idx + Len(vec) ELSE idx
    IN  IF off >= 0 /\ off < Len(vec) THEN [err |-> NoErr, v |-> vec[off + 1]]
        ELSE [err |-> TypeError("can't convert nil into Float"), v |-> 0]

\* csr_matrix_values / csr_matrix_col_index: a copy of the nnz cells.
csr_matrix_values(c, h, g) ==
    [result |-> [i \in 1 .. c.nnz |-> ReadCell(h, c.values, i - 1, g)],
     reads |-> [i \in 1 .. c.nnz |-> Rd("values", i - 1)]]
csr_matrix_col_index(c, h, g) ==
    [result |-> [i \in 1 .. c.nnz |-> ReadCell(h, c.col_index, i - 1, g)],
     reads |-> [i \in 1 .. c.nnz |-> Rd("col_index", i - 1)]]
\* csr_matrix_row_index: a copy of the n + 1 cells.
csr_matrix_row_index(c, h, g) ==
    [result |-> [i \in 1 .. c.n + 1 |-> ReadCell(h, c.row_index, i - 1, g)],
     reads |-> [i \in 1 .. c.n + 1 |-> Rd("row_index", i - 1)]]

\* A term that leaves the vector out.
MulvecTermNoVec(value, x) == value

\* csr->values[jj] * NUM2DBL(...) in csr_matrix_mulvec
MulvecTerm(value, x) == value * x

\* for (jj = row_index[i]; jj < row_index[i + 1]; jj++) tmp += ... , in mulvec
RECURSIVE MulvecRow(_, _, _, _, _, _, _, _)
MulvecRow(c, h, vec, i, jj, tmp, reads, g) ==
    LET row_end == ReadCell(h, c.row_index, i + 1, g)
        reads1 == Append(reads, Rd("row_index", i + 1))
    IN  IF jj >= row_end THEN [err |-> NoErr, tmp |-> tmp, reads |-> reads1]
        ELSE LET value == ReadCell(h, c.values, jj, g)
                 col == ReadCell(h, c.col_index, jj, g)
                 x == VecEntry(vec, col)
                 reads2 == reads1 \o <<Rd("values", jj), Rd("col_index", jj)>>
             IN  IF x.err.kind # "none" THEN [err |-> x.err, tmp |-> tmp, reads |-> reads2]
                 ELSE MulvecRow(c, h, vec, i, jj + 1, tmp + MulvecTerm(value, x.v), reads2, g)

\* for (i = 0; i < csr->n; i++)
RECURSIVE MulvecRows(_, _, _, _, _, _, _)
MulvecRows(c, h, vec, i, result, reads, g) ==
    IF i >= c.n THEN [err |-> NoErr, returned |-> TRUE, result |-> result, reads |-> reads]
    ELSE LET r == MulvecRow(c, h, vec, i, ReadCell(h, c.row_index, i, g), 0,
                            Append(reads, Rd("row_index", i)), g)
         IN  IF r.err.kind # "none"
             THEN [err |-> r.err, returned |-> FALSE, result |-> <<>>, reads |-> r.reads]
             ELSE MulvecRows(c, h, vec, i + 1, Append(result, r.tmp), r.reads, g)

\* csr_matrix_mulvec(self, vec)
csr_matrix_mulvec(c, h, vec, g) ==
    IF Len(vec) # c.n
    THEN [err |-> ArgError("Dimension Mismatch CSRMatrix.n != vec.size"),
          returned |-> FALSE, result |-> <<>>, reads |-> <<>>]
    ELSE MulvecRows(c, h, vec, 0, <<>>, <<>>, g)

\* A term that leaves the vector out.
DotRowTermNoVec(value, x) == value

\* csr->values[jj] * NUM2DBL(...) in csr_matrix_dot_row
DotRowTerm(value, x) == value * x

\* for (jj = row_index[i]; jj < row_index[i + 1]; jj++) tmp += ... , in dot_row
RECURSIVE DotRowLoop(_, _, _, _, _, _, _, _)
DotRowLoop(c, h, vec, i, jj, tmp, reads, g) ==
    LET row_end == ReadCell(h, c.row_index, i + 1, g)
        reads1 == Append(reads, Rd("row_index", i + 1))
    IN  IF jj >= row_end
        THEN [err |-> NoErr, returned |-> TRUE, result |-> tmp, reads |-> reads1]
        ELSE LET value == ReadCell(h, c.values, jj, g)
                 col == ReadCell(h, c.col_index, jj, g)
                 x == VecEntry(vec, col)
                 reads2 == reads1 \o <<Rd("values", jj), Rd("col_index", jj)>>
             IN  IF x.err.kind # "none"
                 THEN [err |-> x.err, returned |-> FALSE, result |-> 0, reads |-> reads2]
                 ELSE DotRowLoop(c, h, vec, i, jj + 1, tmp + DotRowTerm(value, x.v), reads2, g)

\* A row check that lets row == n through.
RowInRangeInclusive(i, n) == i >= 0 /\ i <= n

\* i >= 0 && i < csr->n
RowInRange(i, n) == i >= 0 /\ i < n

\* csr_matrix_dot_row(self, vec, row)
csr_matrix_dot_row(c, h, vec, row, g) ==
    IF Len(vec) # c.n
    THEN [err |-> ArgError("Dimension Mismatch CSRMatrix.n != vec.size"),
          returned |-> FALSE, result |-> 0, reads |-> <<>>]
    ELSE IF ~RowInRange(row, c.n)
    THEN [err |-> ArgError("Index Error row_idx >= m or idx < 0"),
          returned |-> FALSE, result |-> 0, reads |-> <<>>]
    ELSE DotRowLoop(c, h, vec, row, ReadCell(h, c.row_index, row, g), 0,
                    <<Rd("row_index", row)>>, g)

\* rb_hash_aset(result, [i, j], val): a later value replaces an earlier one
\* stored under an equal key.
CoordASet(result, key, val) ==
    [x \in DOMAIN result \cup {key} |-> IF x = key THEN val ELSE result[x]]

\* if (k == row_end) { i++; row_end = csr->row_index[i + 1]; }
NextRow(c, h, k, i, row_end, g) ==
    IF k = row_end
    THEN [i |-> i + 1, row_end |-> ReadCell(h, c.row_index, i + 2, g),
          reads |-> <<Rd("row_index", i + 2)>>]
    ELSE [i |-> i, row_end |-> row_end, reads |-> <<>>]

\* for (k = 0; k < csr->nnz; k++)
RECURSIVE CoordLoop(_, _, _, _, _, _, _, _)
CoordLoop(c, h, k, i, row_end, result, reads, g) ==
    IF k >= c.nnz THEN [result |-> result, reads |-> reads]
    ELSE LET nr == NextRow(c, h, k, i, row_end, g)
             key == <<nr.i, ReadCell(h, c.col_index, k, g)>>
             val == ReadCell(h, c.values, k, g)
         IN  CoordLoop(c, h, k + 1, nr.i, nr.row_end, CoordASet(result, key, val),
                       reads \o nr.reads \o <<Rd("col_index", k), Rd("values", k)>>, g)

\* csr_matrix_coordinates(self): i = 0, row_end = row_index[1], then the loop.
csr_matrix_coordinates(c, h, g) ==
    CoordLoop(c, h, 0, 0, ReadCell(h, c.row_index, 1, g), <<>>, <<Rd("row_index", 1)>>, g)

\* The vectors a caller passes: every vector of n elements of VecVals, the
\* vector 1, 2, .., n (whose elements tell the columns apart), and one that is
\* an element longer and one that is an element shorter.
VecArgs(n) ==
    [1 .. n -> VecVals] \cup {[k \in 1 .. n |-> k]} \cup {[k \in 1 .. n + 1 |-> 1]}
       \cup (IF n > 0 THEN {[k \in 1 .. n - 1 |-> 1]} ELSE {})
RowArgs == (0 - 1) .. MaxN

Query(op, vec, row, r) ==
    /\ call' = [NoCall EXCEPT !.op = op, !.vec = vec, !.row = row, !.err = r.err,
                              !.returned = r.returned, !.result = r.result,
                              !.reads = r.reads]
    /\ UNCHANGED <<state, data, csr, heap, bad_frees, inits>>

\* The instance is constructed and no call on it is in progress: calls are
\* synchronous, one returns before the next starts.
Idle == state = "constructed" /\ call.op \in {"initialize", "return"}

\* The caller takes the result of a query.
Return ==
    /\ state = "constructed"
    /\ call.op \in {"values", "col_index", "row_index", "mulvec", "dot_row", "coordinates"}
    /\ call' = [NoCall EXCEPT !.op = "return"]
    /\ UNCHANGED <<state, data, csr, heap, bad_frees, inits>>

Returned(r) == [err |-> NoErr, returned |-> TRUE, result |-> r.result, reads |-> r.reads]

Values ==
    /\ Idle
    /\ \E g \in Garbage : Query("values", <<>>, 0, Returned(csr_matrix_values(csr, heap, g)))

ColIndex ==
    /\ Idle
    /\ \E g \in Garbage :
          Query("col_index", <<>>, 0, Returned(csr_matrix_col_index(csr, heap, g)))

RowIndex ==
    /\ Idle
    /\ \E g \in Garbage :
          Query("row_index", <<>>, 0, Returned(csr_matrix_row_index(csr, heap, g)))

Mulvec ==
    /\ Idle
    /\ \E vec \in VecArgs(csr.n), g \in Garbage :
          Query("mulvec", vec, 0, csr_matrix_mulvec(csr, heap, vec, g))

DotRow ==
    /\ Idle
    /\ \E vec \in VecArgs(csr.n), row \in RowArgs, g \in Garbage :
          Query("dot_row", vec, row, csr_matrix_dot_row(csr, heap, vec, row, g))

Coordinates ==
    /\ Idle
    /\ \E g \in Garbage :
          Query("coordinates", <<>>, 0, Returned(csr_matrix_coordinates(csr, heap, g)))

Next ==
    \/ Alloc \/ Initialize \/ Free
    \/ Values \/ ColIndex \/ RowIndex \/ Mulvec \/ DotRow \/ Coordinates \/ Return
Spec == Init /\ [][Next]_vars

LifeNext == Alloc \/ Initialize \/ Reinitialize \/ Free
LifeSpec == Init /\ [][LifeNext]_vars

\* ------------------------------------------------- what the input says
\* The number of keys of data, the entries of its i-th row (1-based), the
\* 0-based position of an identifier in the key ordering.
N == Len(data.pairs)
RowEnts(i) == data.pairs[i].row.ents
KeySet == {data.pairs[p].key : p \in 1 .. N}
IndexOf(id) == (CHOOSE p \in 1 .. N : data.pairs[p].key = id) - 1

RECURSIVE SumLens(_)
SumLens(i) == IF i = 0 THEN 0 ELSE Len(RowEnts(i)) + SumLens(i - 1)
TotalEntries == SumLens(N)

\* The three arrays of the instance.
ValuesCells == heap[csr.values].cells
ColCells == heap[csr.col_index].cells
RowCells == heap[csr.row_index].cells

\* ---------------------------------------------------------------- claims

\* C1: a constructed matrix has row_index of length n + 1 that starts at 0,
\* never decreases and ends at nnz, and values and col_index of length nnz,
\* where nnz is the number of entries of all rows of the input; the three
\* accessors return arrays of these lengths.
C1_Shape ==
    state = "constructed" =>
        /\ csr.n = N
        /\ csr.nnz = TotalEntries
        /\ Len(RowCells) = N + 1
        /\ RowCells[1] = 0
        /\ \A i \in 1 .. N : RowCells[i] <= RowCells[i + 1]
        /\ RowCells[N + 1] = TotalEntries
        /\ Len(ValuesCells) = TotalEntries
        /\ Len(ColCells) = TotalEntries
        /\ (call.op = "row_index" => call.result = RowCells)
        /\ (call.op = "values" => Len(call.result) = TotalEntries)
        /\ (call.op = "col_index" => Len(call.result) = TotalEntries)

\* C1 witness: row_index() of a three-row matrix whose middle row is empty.
C1_Witness ==
    /\ state = "constructed"
    /\ call.op = "row_index"
    /\ call.result = <<0, 2, 2, 3>>

\* C2: the j-th entry of row i is stored at row_index[i] + j: its weight in
\* values, the position of its id in the key ordering in col_index; nothing
\* is reordered or merged, and values() and col_index() return these arrays.
C2_RowMajor ==
    state = "constructed" =>
        /\ \A i \in 1 .. N : \A j \in 1 .. Len(RowEnts(i)) :
              /\ ValuesCells[RowCells[i] + j] = RowEnts(i)[j].weight
              /\ ColCells[RowCells[i] + j] = IndexOf(RowEnts(i)[j].id)
        /\ (call.op = "values" => call.result = ValuesCells)
        /\ (call.op = "col_index" => call.result = ColCells)

\* C2 witness: the documented example, keys a, b, c with a -> c, b -> b,
\* c -> a, all of weight 1.
C2_Witness ==
    /\ state = "constructed"
    /\ call.op = "col_index"
    /\ HashKeys(data) = <<1, 2, 3>>
    /\ RowCells = <<0, 1, 2, 3>>
    /\ call.result = <<2, 1, 0>>
    /\ ValuesCells = <<1, 1, 1>>

\* The sum of values[k] * vec[col_index[k]] for lo <= k < hi.
RECURSIVE RowSum(_, _, _)
RowSum(vec, lo, hi) ==
    IF lo >= hi THEN 0
    ELSE ValuesCells[lo + 1] * vec[ColCells[lo + 1] + 1] + RowSum(vec, lo + 1, hi)

IsValuesRead(r) == r.arr = "values"

\* C3: multiply(vec) with len(vec) = n returns n elements, the i-th the sum
\* of values[k] * vec[col_index[k]] over the slice of row i, and it reads
\* values in storage order.
C3_Multiply ==
    (state = "constructed" /\ call.op = "mulvec" /\ Len(call.vec) = csr.n) =>
        /\ call.returned
        /\ Len(call.result) = csr.n
        /\ \A i \in 1 .. csr.n :
              call.result[i] = RowSum(call.vec, RowCells[i], RowCells[i + 1])
        /\ SelectSeq(call.reads, IsValuesRead)
              = [k \in 1 .. csr.nnz |-> Rd("values", k - 1)]

\* C3 witness: a product over a matrix with an empty row (whose element is 0)
\* and a row that holds the same column twice, with weights 1 and 2.
C3_Witness ==
    /\ state = "constructed"
    /\ call.op = "mulvec"
    /\ call.returned
    /\ \E i \in 1 .. csr.n : RowCells[i] = RowCells[i + 1] /\ call.result[i] = 0
    /\ \E i \in 1 .. csr.n :
          /\ RowCells[i + 1] = RowCells[i] + 2
          /\ ColCells[RowCells[i] + 1] = ColCells[RowCells[i] + 2]
          /\ call.result[i] = 3 * call.vec[ColCells[RowCells[i] + 1] + 1]

\* C4: dotRow(vec, row) with len(vec) = n and 0 <= row < n returns
\* multiply(vec)[row].
C4_DotRow ==
    (state = "constructed" /\ call.op = "dot_row" /\ Len(call.vec) = csr.n
       /\ call.row >= 0 /\ call.row < csr.n) =>
        /\ call.returned
        /\ call.result = csr_matrix_mulvec(csr, heap, call.vec, Indet).result[call.row + 1]

\* C4 witness: the dot product of the last of three rows, not zero.
C4_Witness ==
    /\ state = "constructed"
    /\ call.op = "dot_row"
    /\ call.returned
    /\ call.row = 2
    /\ call.result = 4

\* The input has no two entries of one row with the same id.
NoDuplicates ==
    \A i \in 1 .. N : \A j1, j2 \in 1 .. Len(RowEnts(i)) :
        j1 # j2 => RowEnts(i)[j1].id # RowEnts(i)[j2].id

\* C5: for an input without duplicate (row, col) pairs, coordinates() is
\* exactly the mapping (i, index(id)) -> weight over the entries of the input.
C5_RoundTrip ==
    (state = "constructed" /\ call.op = "coordinates" /\ NoDuplicates) =>
        {<<k[1], k[2], call.result[k]>> : k \in DOMAIN call.result}
           = UNION {{<<i - 1, IndexOf(RowEnts(i)[j].id), RowEnts(i)[j].weight>> :
                        j \in 1 .. Len(RowEnts(i))} : i \in 1 .. N}

\* C6: when initialize fails a validation (the row count, a row that is no
\* Array, an element that is no Hash, a weight that is no number), no buffer
\* has been allocated.
C6_NoBufferOnFailure ==
    (state = "raised" /\ call.op = "initialize"
       /\ call.err.msg \in {"n_rows != keys.size, check your dimensions",
                            "wrong argument type (expected Array)",
                            "wrong argument type (expected Hash)",
                            "can't convert nil into Float"}) =>
        heap = <<>>

\* Some entry of the input names an id that is no key of data.
HasUnknownId ==
    /\ data.type = "T_HASH"
    /\ \E i \in 1 .. N : \E j \in 1 .. Len(RowEnts(i)) :
          RowEnts(i)[j].type = "T_HASH" /\ RowEnts(i)[j].id \notin KeySet

\* C7: every col_index[k] of a constructed matrix is in [0, n); initialize on
\* an input with an id that is no key raises and constructs nothing, and the
\* col_index buffer it leaves behind (the second it allocated) holds no index
\* outside [0, n).
C7_ColumnsInRange ==
    /\ state = "constructed" => \A k \in 1 .. Len(ColCells) : ColCells[k] \in 0 .. csr.n - 1
    /\ (call.op = "initialize" /\ HasUnknownId) =>
          /\ state = "raised"
          /\ ~call.returned
          /\ call.err.kind # "none"
          /\ \A a \in DOMAIN heap : \A k \in 1 .. Len(heap[a].cells) :
                a = 2 => heap[a].cells[k] \in {Indet} \cup (0 .. N - 1)

\* C7 witness: initialize raised because the lookup of an id found nothing.
C7_Witness ==
    /\ state = "raised"
    /\ call.op = "initialize"
    /\ call.num_rows = N
    /\ HasUnknownId
    /\ call.err.msg = "no implicit conversion from nil to integer"

\* The error multiply raises for a vector one element too long.
DimensionError == csr_matrix_mulvec(csr, heap, [k \in 1 .. csr.n + 1 |-> 1], Indet).err

MultiplyGuard ==
    (state = "constructed" /\ call.op = "mulvec" /\ Len(call.vec) # csr.n) =>
        /\ ~call.returned
        /\ call.err.kind = "ArgumentError"
        /\ call.err.msg = "Dimension Mismatch CSRMatrix.n != vec.size"

BadRowCall ==
    /\ state = "constructed"
    /\ call.op = "dot_row"
    /\ Len(call.vec) = csr.n
    /\ (call.row < 0 \/ call.row >= csr.n)

C9_ReleasedTogether ==
    /\ bad_frees = 0
    /\ \A a \in DOMAIN heap : heap[a].frees <= 1
    /\ state = "freed" => \A a \in DOMAIN heap : heap[a].frees = 1
    /\ call.op = "free" => call.reads[1].idx # Indet

InBounds(r) ==
    IF r.arr = "row_index" THEN r.idx >= 0 /\ r.idx <= csr.n
    ELSE r.idx >= 0 /\ r.idx < csr.nnz

\* C10: every read that coordinates(), multiply() and dotRow() make of
\* row_index is at an index in [0, n], and of values or col_index in [0, nnz).
C10_ReadsInBounds ==
    (state = "constructed" /\ call.op \in {"coordinates", "mulvec", "dot_row"}) =>
        \A k \in 1 .. Len(call.reads) : InBounds(call.reads[k])

====
